---- MODULE Spec2Model ----
(***************************************************************************)
(* Model of the search-result pagination layer of go-elastic:              *)
(*   es.Client.Load            (src/es/es.go)                              *)
(*   loadSimplePagination,                                                 *)
(*   cursorPaginate            (src/unnamed/part_000, package main)        *)
(* The search engine is an external collaborator; it is modelled as an     *)
(* index of documents that answers a request with a JSON envelope.         *)
(***************************************************************************)
EXTENDS Integers, Sequences, FiniteSets

VARIABLES
    pc,       \* position of the running function
    index,    \* IDs of the documents stored in the engine's index
    bad,      \* IDs of stored documents whose _source does not fit User
    inserts,  \* number of documents stored by other writers so far
    i,        \* loop variable of the pagination drivers
    ls,       \* cursorPaginate: cursor threaded to the next call
    result,   \* the drivers' accumulated []es.User
    calls,    \* history: the arguments and the request of every Load call
    resp,     \* the raw response the latest Load call received
    outs      \* history: what every Load call ended with

vars == <<pc, index, bad, inserts, i, ls, result, calls, resp, outs>>

----------------------------------------------------------------------------
(* Bounds of the model *)

MaxHits == 2      \* longest hits.hits list of a hand-made response
MaxFrom == 1      \* largest offset argument of a direct Load call
MaxCursor == 1    \* largest cursor argument of a direct Load call
MaxID == 11       \* largest document ID the index can hold
MaxInserts == 1   \* documents stored by other writers during a retrieval

(* Program constants *)

PageSize == 10    \* size := 10 in both drivers
SimpleBound == 100 \* i < 100 in loadSimplePagination
CursorIters == 10 \* 1 initial call + the loop i := 1; i < 10

DefaultIndex == "my-simple-index"

----------------------------------------------------------------------------
(* JSON values of the decoded generic tree (map[string]any).  Numbers are  *)
(* integer-valued.  A string node carries its text; when the text is an    *)
(* RFC3339 timestamp, rfc holds and n is the instant it denotes.           *)

JNum(n) == [t |-> "num", n |-> n, s |-> "", rfc |-> FALSE]
JStr(s) == [t |-> "str", n |-> 0, s |-> s, rfc |-> FALSE]
JTime(n, s) == [t |-> "str", n |-> n, s |-> s, rfc |-> TRUE]
JNull == [t |-> "null", n |-> 0, s |-> "", rfc |-> FALSE]
JBool == [t |-> "bool", n |-> 0, s |-> "", rfc |-> FALSE]

(* Instants are counted from Go's zero time.Time, 0001-01-01T00:00:00Z *)
ZeroTime == 0

ZeroTimeNode == JTime(0, "0001-01-01T00:00:00Z")

SeedTimeNode == JTime(738885, "2024-01-01T00:00:00Z")

(* Object keys are sequences of characters, a character being its Unicode *)
(* code point.  The characters of the model are Latin-1 (0..255), U+0130   *)
(* (capital I with dot above) and U+212A (Kelvin sign).                    *)
KeyID == <<73, 68>>                                       \* "ID"
KeyCreatedAt == <<67, 114, 101, 97, 116, 101, 100, 65, 116>>  \* "CreatedAt"
KeyUsername == <<85, 115, 101, 114, 110, 97, 109, 101>>   \* "Username"

KeyLowerID == <<105, 100>>                                \* "id"
KeyDottedID == <<304, 68>>                                \* "\u0130D"
KeyLowerUsername == <<117, 115, 101, 114, 110, 97, 109, 101>>  \* "username"
KeyFoo == <<102, 111, 111>>                               \* "foo"

(* unicode.ToLower on the characters of the model, as strings.ToLower      *)
(* applies it to every character of a key                                  *)
Lower(c) ==
    IF c \in 65..90 THEN c + 32
    ELSE IF c \in 192..222 /\ c # 215 THEN c + 32
    ELSE IF c = 304 THEN 105
    ELSE IF c = 8490 THEN 107
    ELSE c

Fold(key) == [k \in 1..Len(key) |-> Lower(key[k])]

FoldedID == Fold(KeyID)
FoldedCreatedAt == Fold(KeyCreatedAt)
FoldedUsername == Fold(KeyUsername)

(* The field of User a member's key selects, "" when none *)
FieldOf(key) ==
    LET f == Fold(key) IN
    IF f = FoldedID THEN "ID"
    ELSE IF f = FoldedUsername THEN "Username"
    ELSE IF f = FoldedCreatedAt THEN "CreatedAt"
    ELSE ""

(* type User struct { ID int; CreatedAt time.Time; Username string } *)
User(id, created, name) == [ID |-> id, CreatedAt |-> created, Username |-> name]

ZeroUser == User(0, ZeroTime, "")

(* type SearchResult struct { Users; TotalCount; LastSort } *)
SearchResult(users, total, lastSort) ==
    [Users |-> users, TotalCount |-> total, LastSort |-> lastSort]

ZeroResult == SearchResult(<<>>, 0, 0)

----------------------------------------------------------------------------
(* jsoniter.Marshal of a map[string]interface{}.  The object o is the set  *)
(* of its members [key, val], keys distinct.  Every member is written, in  *)
(* the map's iteration order, which Go leaves open: Marshal is the set of  *)
(* the bodies the call can produce.                                        *)

RECURSIVE Marshal(_)
Marshal(o) ==
    IF o = {} THEN {<<>>}
    ELSE UNION {{<<m>> \o b : b \in Marshal(o \ {m})} : m \in o}

(* jsoniter.Unmarshal(jsonBody, &doc): a member is decoded into the field  *)
(* whose name, or lower-cased name, is the key or the lower-cased key;     *)
(* other members are skipped; null leaves ID and CreatedAt as they are and *)
(* sets Username to ""; a value the field's type does not accept is an     *)
(* error.                                                                  *)

RECURSIVE UnmarshalFrom(_, _, _)
UnmarshalFrom(body, k, doc) ==
    IF k > Len(body) THEN [err |-> FALSE, doc |-> doc]
    ELSE LET m == body[k]
             field == FieldOf(m.key)
         IN
         IF field = "" THEN UnmarshalFrom(body, k + 1, doc)
         ELSE IF m.val.t = "null"
         THEN UnmarshalFrom(body, k + 1,
                            IF field = "Username" THEN [doc EXCEPT !.Username = ""]
                            ELSE doc)
         ELSE IF field = "ID"
         THEN IF m.val.t = "num"
              THEN UnmarshalFrom(body, k + 1, [doc EXCEPT !.ID = m.val.n])
              ELSE [err |-> TRUE, doc |-> doc]
         ELSE IF field = "Username"
         THEN IF m.val.t = "str"
              THEN UnmarshalFrom(body, k + 1, [doc EXCEPT !.Username = m.val.s])
              ELSE [err |-> TRUE, doc |-> doc]
         ELSE IF m.val.t = "str" /\ m.val.rfc
              THEN UnmarshalFrom(body, k + 1, [doc EXCEPT !.CreatedAt = m.val.n])
              ELSE [err |-> TRUE, doc |-> doc]

Unmarshal(body) == UnmarshalFrom(body, 1, ZeroUser)

(* The two steps on one _source: what doc and err can be after them *)
Decode(o) == {Unmarshal(b) : b \in Marshal(o)}

----------------------------------------------------------------------------
(* The request Load sends: the query body and the Search options.          *)
(* Optional parameters are sequences of length 0 or 1.                     *)

BuildRequestAlwaysFrom(idx, from, size, cursor) ==
    [ index        |-> IF idx = "" THEN DefaultIndex ELSE idx,
      query        |-> "match_all",
      sort         |-> <<[field |-> "ID", order |-> "asc"]>>,
      search_after |-> IF cursor # 0 THEN <<cursor>> ELSE <<>>,
      from         |-> <<from>>,
      size         |-> <<size>>,
      track_total  |-> TRUE ]

BuildRequest(idx, from, size, cursor) ==
    [ index        |-> IF idx = "" THEN DefaultIndex ELSE idx,
      query        |-> "match_all",
      sort         |-> <<[field |-> "ID", order |-> "asc"]>>,
      search_after |-> IF cursor # 0 THEN <<cursor>> ELSE <<>>,
      from         |-> IF cursor # 0 THEN <<>> ELSE <<from>>,
      size         |-> <<size>>,
      track_total  |-> TRUE ]

----------------------------------------------------------------------------
(* The outcomes of one Load call *)

Returned(res) == [kind |-> "ok", res |-> res]
Failed == [kind |-> "err", res |-> ZeroResult]
Panicked == [kind |-> "panic", res |-> ZeroResult]

(* The first element of an entry's sort array asserts to float64 *)
SortIsNumber(e) ==
    /\ e.sort.t = "arr"
    /\ Len(e.sort.a) >= 1
    /\ e.sort.a[1].t = "num"

(* The range loop over hits.hits, from entry k on, with the loop's locals: *)
(* the set of the outcomes it can end with.  A failed type assertion       *)
(* panics.  Marshal of a decoded JSON object does not fail, so of the two  *)
(* truncating returns the Unmarshal one is taken; both leave LastSort at   *)
(* its zero value.                                                         *)
RECURSIVE DecodeHits(_, _, _, _, _)
DecodeHits(hs, k, docs, lastSort, total) ==
    IF k > Len(hs)
    THEN {Returned(SearchResult(docs, total, lastSort))}
    ELSE LET e == hs[k] IN
         IF ~SortIsNumber(e) THEN {Panicked}
         ELSE IF e.src.t # "obj" THEN {Panicked}
         ELSE UNION {IF u.err
                     THEN {Returned(SearchResult(docs, total, 0))}
                     ELSE DecodeHits(hs, k + 1, Append(docs, u.doc),
                                     e.sort.a[1].n, total)
                     : u \in Decode(e.src.o)}

DecodeEnvelopeNoEarlyExit(r) ==
    IF r.total.t # "num" THEN {Panicked}
    ELSE IF r.hits.t # "arr" THEN {Panicked}
    ELSE DecodeHits(r.hits.a, 1, <<>>, 0, r.total.n)

(* The closure that turns the decoded envelope into a SearchResult *)
DecodeEnvelope(r) ==
    IF r.total.t # "num" THEN {Panicked}
    ELSE IF r.total.n = 0 THEN {Returned(ZeroResult)}
    ELSE IF r.hits.t # "arr" THEN {Panicked}
    ELSE DecodeHits(r.hits.a, 1, <<>>, 0, r.total.n)

(* What Load can end with, given the engine's answer *)
LoadResult(r) ==
    IF r.status = "transport" THEN {Failed}
    ELSE IF r.status = "engine_error" THEN {Failed}
    ELSE IF r.status = "bad_json" THEN {Failed}
    ELSE DecodeEnvelope(r)

----------------------------------------------------------------------------
(* Responses: the decoded envelope {"hits": {"total": {"value": n},        *)
(* "hits": [{"sort": [k], "_source": {...}}, ...]}} with its status.       *)

Member(key, val) == [key |-> key, val |-> val]

Object(o) == [t |-> "obj", o |-> o]

NoObject == [t |-> "str", o |-> {}]

(* The _source of a stored document, as Client.Store wrote it *)
Source(id, fits) ==
    Object({Member(KeyID, JNum(id)),
            Member(KeyCreatedAt, SeedTimeNode),
            Member(KeyUsername, IF fits THEN JStr("user") ELSE JNum(id))})

Hit(id, fits) == [sort |-> [t |-> "arr", a |-> <<JNum(id)>>], src |-> Source(id, fits)]

Envelope(total, hits) == [status |-> "ok", total |-> total, hits |-> hits]

NoEnvelope(status) ==
    [status |-> status, total |-> [t |-> "absent", n |-> 0],
     hits |-> [t |-> "absent", a |-> <<>>]]

(* Hand-made responses for a direct Load call *)
SortVals == {[t |-> "absent", a |-> <<>>]}
            \cup {[t |-> "arr", a |-> <<JNum(k)>>] : k \in 1..2}

SrcVals == {NoObject,
            Source(1, TRUE), Source(2, TRUE), Source(1, FALSE),
            Object({Member(KeyDottedID, JStr("x"))}),
            Object({Member(KeyID, JNum(2)), Member(KeyFoo, JBool),
                    Member(KeyCreatedAt, ZeroTimeNode)}),
            Object({Member(KeyLowerID, JNum(1)), Member(KeyID, JNum(2)),
                    Member(KeyUsername, JStr("bob")),
                    Member(KeyLowerUsername, JNull)})}

Entries == [sort : SortVals, src : SrcVals]

HitLists == UNION {[1..n -> Entries] : n \in 0..MaxHits}

TotalVals == {[t |-> "absent", n |-> 0], [t |-> "str", n |-> 0]}
             \cup {[t |-> "num", n |-> n] : n \in {0, 25}}

HitsVals == {[t |-> "absent", a |-> <<>>]} \cup {[t |-> "arr", a |-> h] : h \in HitLists}

Responses ==
    {NoEnvelope("transport"), NoEnvelope("engine_error"), NoEnvelope("bad_json")}
    \cup {Envelope(tv, hv) : tv \in TotalVals, hv \in HitsVals}

----------------------------------------------------------------------------
(* The engine: match_all sorted ascending by ID over the stored documents, *)
(* answered from the offset or after the search_after key, with the exact  *)
(* total (track_total_hits).                                               *)

Min(a, b) == IF a < b THEN a ELSE b

RECURSIVE SortedSeq(_)
SortedSeq(S) ==
    IF S = {} THEN <<>>
    ELSE LET m == CHOOSE x \in S : \A y \in S : x <= y
         IN <<m>> \o SortedSeq(S \ {m})

EngineSearch(req, idx, badset) ==
    LET sorted == SortedSeq(idx)
        After(x) == x > req.search_after[1]
        matching == IF req.search_after # <<>> THEN SelectSeq(sorted, After) ELSE sorted
        skip == IF req.from # <<>> THEN req.from[1] ELSE 0
        page == SubSeq(matching, skip + 1, Min(skip + req.size[1], Len(matching)))
    IN Envelope([t |-> "num", n |-> Cardinality(idx)],
                [t |-> "arr", a |-> [k \in 1..Len(page) |-> Hit(page[k], page[k] \notin badset)]])

(* What a Search call can come back with *)
SearchOutcomes(req) ==
    {EngineSearch(req, index, bad), NoEnvelope("transport")}

Call(idx, from, size, cursor) ==
    [idx |-> idx, from |-> from, size |-> size, cursor |-> cursor,
     req |-> BuildRequest(idx, from, size, cursor)]

----------------------------------------------------------------------------
(* A direct call of Load by some caller, on any response *)

InitLoad ==
    /\ pc = "idle"
    /\ index = {}
    /\ bad = {}
    /\ inserts = 0
    /\ i = 0
    /\ ls = 0
    /\ result = <<>>
    /\ calls = <<>>
    /\ resp = <<>>
    /\ outs = <<>>

Load ==
    /\ pc = "idle"
    /\ \E r \in Responses :
          \E out \in LoadResult(r) :
             \E idx \in {"", "users"}, from \in 0..MaxFrom, size \in {PageSize},
                cursor \in 0..MaxCursor :
                /\ calls' = <<Call(idx, from, size, cursor)>>
                /\ resp' = <<r>>
                /\ outs' = <<out>>
    /\ pc' = "returned"
    /\ UNCHANGED <<index, bad, inserts, i, ls, result>>

NextLoad == Load

SpecLoad == InitLoad /\ [][NextLoad]_vars

----------------------------------------------------------------------------
(* The index a retrieval starts on, and the other writers (Client.Store)   *)

IndexChoices == {lo..hi : lo \in 0..1, hi \in -1..MaxID}

MalformedID == 3

BadChoices(idx) == {{}, {MalformedID} \cap idx}

InitDrivers ==
    /\ index \in IndexChoices
    /\ bad \in BadChoices(index)
    /\ inserts = 0
    /\ i = 0
    /\ ls = 0
    /\ result = <<>>
    /\ calls = <<>>
    /\ resp = <<>>
    /\ outs = <<>>

(* The IDs another writer stores next: the lowest and the highest free one *)
StoreIDs(idx) ==
    LET free == (0..MaxID) \ idx
    IN {id \in free : (\A x \in free : id <= x) \/ (\A x \in free : id >= x)}

(* Another client stores a document while a retrieval is running *)
Store ==
    /\ pc \in {"cursor_first", "cursor_loop"}
    /\ inserts < MaxInserts
    /\ \E id \in StoreIDs(index) : index' = index \cup {id}
    /\ inserts' = inserts + 1
    /\ UNCHANGED <<pc, bad, i, ls, result, calls, resp, outs>>

----------------------------------------------------------------------------
(* loadSimplePagination: for i := from; i < 100; i += size *)

InitSimple == pc = "simple" /\ InitDrivers

SimpleStepByOne ==
    /\ pc = "simple"
    /\ i < SimpleBound
    /\ LET c == Call("", i, PageSize, 0) IN
       \E r \in SearchOutcomes(c.req) :
          \E out \in LoadResult(r) :
          /\ calls' = Append(calls, c)
          /\ resp' = <<r>>
          /\ outs' = Append(outs, out)
          /\ IF out.kind = "panic"
             THEN pc' = "panic" /\ UNCHANGED <<i, result>>
             ELSE IF out.kind = "err"
             THEN pc' = "fatal" /\ UNCHANGED <<i, result>>
             ELSE /\ result' = result \o out.res.Users
                  /\ i' = i + 1
                  /\ pc' = pc
    /\ UNCHANGED <<index, bad, inserts, ls>>

SimpleStep ==
    /\ pc = "simple"
    /\ i < SimpleBound
    /\ LET c == Call("", i, PageSize, 0) IN
       \E r \in SearchOutcomes(c.req) :
          \E out \in LoadResult(r) :
          /\ calls' = Append(calls, c)
          /\ resp' = <<r>>
          /\ outs' = Append(outs, out)
          /\ IF out.kind = "panic"
             THEN pc' = "panic" /\ UNCHANGED <<i, result>>
             ELSE IF out.kind = "err"
             THEN pc' = "fatal" /\ UNCHANGED <<i, result>>
             ELSE /\ result' = result \o out.res.Users
                  /\ i' = i + PageSize
                  /\ pc' = pc
    /\ UNCHANGED <<index, bad, inserts, ls>>

SimpleReturn ==
    /\ pc = "simple"
    /\ ~(i < SimpleBound)
    /\ pc' = "done"
    /\ UNCHANGED <<index, bad, inserts, i, ls, result, calls, resp, outs>>

NextSimple == SimpleStep \/ SimpleReturn

SpecSimple == InitSimple /\ [][NextSimple]_vars

----------------------------------------------------------------------------
(* cursorPaginate: one call with the unset cursor, then for i := 1; i < 10 *)

InitCursor == pc = "cursor_first" /\ InitDrivers

(* initRes, _ := client.Load(ctx, index, from, size, 0) *)
CursorFirst ==
    /\ pc = "cursor_first"
    /\ LET c == Call("", 0, PageSize, 0) IN
       \E r \in SearchOutcomes(c.req) :
          \E out \in LoadResult(r) :
          /\ calls' = Append(calls, c)
          /\ resp' = <<r>>
          /\ outs' = Append(outs, out)
          /\ IF out.kind = "panic"
             THEN pc' = "panic" /\ UNCHANGED <<i, ls, result>>
             ELSE /\ ls' = out.res.LastSort
                  /\ result' = result \o out.res.Users
                  /\ i' = 1
                  /\ pc' = "cursor_loop"
    /\ UNCHANGED <<index, bad, inserts>>

CursorStepStaleCursor ==
    /\ pc = "cursor_loop"
    /\ i < CursorIters
    /\ LET c == Call("", 0, PageSize, ls) IN
       \E r \in SearchOutcomes(c.req) :
          \E out \in LoadResult(r) :
          /\ calls' = Append(calls, c)
          /\ resp' = <<r>>
          /\ outs' = Append(outs, out)
          /\ IF out.kind = "panic"
             THEN pc' = "panic" /\ UNCHANGED <<i, ls, result>>
             ELSE IF out.kind = "err"
             THEN pc' = "fatal" /\ UNCHANGED <<i, ls, result>>
             ELSE /\ ls' = ls
                  /\ result' = result \o out.res.Users
                  /\ i' = i + 1
                  /\ pc' = pc
    /\ UNCHANGED <<index, bad, inserts>>

CursorStep ==
    /\ pc = "cursor_loop"
    /\ i < CursorIters
    /\ LET c == Call("", 0, PageSize, ls) IN
       \E r \in SearchOutcomes(c.req) :
          \E out \in LoadResult(r) :
          /\ calls' = Append(calls, c)
          /\ resp' = <<r>>
          /\ outs' = Append(outs, out)
          /\ IF out.kind = "panic"
             THEN pc' = "panic" /\ UNCHANGED <<i, ls, result>>
             ELSE IF out.kind = "err"
             THEN pc' = "fatal" /\ UNCHANGED <<i, ls, result>>
             ELSE /\ ls' = out.res.LastSort
                  /\ result' = result \o out.res.Users
                  /\ i' = i + 1
                  /\ pc' = pc
    /\ UNCHANGED <<index, bad, inserts>>

CursorReturn ==
    /\ pc = "cursor_loop"
    /\ ~(i < CursorIters)
    /\ pc' = "done"
    /\ UNCHANGED <<index, bad, inserts, i, ls, result, calls, resp, outs>>

NextCursor == CursorFirst \/ CursorStep \/ CursorReturn \/ Store

SpecCursor == InitCursor /\ [][NextCursor]_vars

----------------------------------------------------------------------------
(* Properties *)

Answered == Len(outs) >= 1
LastResp == resp[1]
LastOut == outs[Len(outs)]

(* The latest call got a success-status envelope with a numeric total > 0  *)
(* and a hits.hits array                                                   *)
PageResponse ==
    /\ Answered
    /\ LastResp.status = "ok"
    /\ LastResp.total.t = "num"
    /\ LastResp.total.n > 0
    /\ LastResp.hits.t = "arr"

LastHits == LastResp.hits.a

FailsToDecode(e) == e.src.t # "obj" \/ \E u \in Decode(e.src.o) : u.err

RECURSIVE ConcatUsers(_, _)
ConcatUsers(os, k) ==
    IF k > Len(os) THEN <<>> ELSE os[k].res.Users \o ConcatUsers(os, k + 1)

RECURSIVE SumUsers(_, _)
SumUsers(os, k) ==
    IF k > Len(os) THEN 0 ELSE Len(os[k].res.Users) + SumUsers(os, k + 1)

Ceil(a, b) == (a + b - 1) \div b

(* C1: whenever Load returns a page for a response with total > 0 and at   *)
(* least one entry in hits.hits, LastSort is the first sort value of the   *)
(* last entry of hits.hits, truncated pages included.                      *)
C1_CursorIsLastSortKey ==
    (/\ PageResponse
     /\ Len(LastHits) >= 1
     /\ SortIsNumber(LastHits[Len(LastHits)])
     /\ LastOut.kind = "ok")
    => LastOut.res.LastSort = LastHits[Len(LastHits)].sort.a[1].n

(* C2: when entry N of hits.hits is the first whose _source fails to       *)
(* decode into a User, Load returns (nil error) the first N-1 decoded      *)
(* documents in response order with the engine-reported total.             *)
C2_TruncatedPage ==
    (/\ PageResponse
     /\ \E n \in 1..Len(LastHits) : FailsToDecode(LastHits[n]))
    => LET n == CHOOSE n \in 1..Len(LastHits) :
                    /\ FailsToDecode(LastHits[n])
                    /\ \A m \in 1..(n - 1) : ~FailsToDecode(LastHits[m])
       IN /\ LastOut.kind = "ok"
          /\ LastOut.res.TotalCount = LastResp.total.n
          /\ Len(LastOut.res.Users) = n - 1
          /\ \A k \in 1..(n - 1) :
                \E u \in Decode(LastHits[k].src.o) : LastOut.res.Users[k] = u.doc

(* C3: a success-status response without a numeric hits.total.value makes  *)
(* Load return an error with the zero SearchResult, and end no other way.  *)
C3_MissingTotalIsError ==
    (Answered /\ LastResp.status = "ok" /\ LastResp.total.t # "num")
    => LastOut = Failed

(* C4: a success-status response with hits.total.value = 0 makes Load      *)
(* return the zero page (no Users, TotalCount 0, LastSort 0) and no error, *)
(* whatever hits.hits holds.                                               *)
C4_ZeroHitsEmptyPage ==
    (Answered /\ LastResp.status = "ok"
        /\ LastResp.total.t = "num" /\ LastResp.total.n = 0)
    => LastOut = Returned(ZeroResult)

C4_Witness ==
    /\ pc = "returned"
    /\ LastResp.status = "ok"
    /\ LastResp.total.t = "num" /\ LastResp.total.n = 0
    /\ LastResp.hits.t = "arr"
    /\ Len(LastHits) >= 1
    /\ ~SortIsNumber(LastHits[1])
    /\ LastHits[1].src.t # "obj"
    /\ LastOut = Returned(ZeroResult)

(* C5: the offset loop asks for the offsets 0, size, 2*size, ... with      *)
(* cursor 0; while no call fails its result is the concatenation of the    *)
(* pages' Users; it returns after exactly ceil(bound/size) requests, empty *)
(* pages included.                                                         *)
C5_OffsetLoop ==
    /\ \A k \in 1..Len(calls) :
          /\ calls[k].from = (k - 1) * PageSize
          /\ calls[k].size = PageSize
          /\ calls[k].cursor = 0
          /\ calls[k].req.from = <<(k - 1) * PageSize>>
          /\ calls[k].req.search_after = <<>>
    /\ pc \in {"simple", "done"} =>
          /\ result = ConcatUsers(outs, 1)
          /\ Len(result) = SumUsers(outs, 1)
    /\ pc = "done" => Len(calls) = Ceil(SimpleBound, PageSize)

C5_Witness ==
    /\ pc = "done"
    /\ Len(outs[1].res.Users) = PageSize
    /\ Len(outs[2].res.Users) >= 1
    /\ Len(outs[3].res.Users) = 0
    /\ Len(calls) = 10
    /\ Len(result) > PageSize

(* C6: every request sorts ascending by ID; with a non-zero cursor it      *)
(* carries search_after = [cursor] and size and no from; with cursor 0 it  *)
(* carries from = offset and size and no search_after.                     *)
C6_RequestShape ==
    \A k \in 1..Len(calls) :
       LET c == calls[k] IN
       /\ c.req.sort = <<[field |-> "ID", order |-> "asc"]>>
       /\ c.req.size = <<c.size>>
       /\ c.cursor # 0 => c.req.search_after = <<c.cursor>> /\ c.req.from = <<>>
       /\ c.cursor = 0 => c.req.search_after = <<>> /\ c.req.from = <<c.from>>

C6_Witness ==
    /\ pc = "returned"
    /\ calls[1].cursor # 0
    /\ calls[1].from # 0
    /\ calls[1].req.from = <<>>
    /\ calls[1].req.search_after = <<calls[1].cursor>>

(* C7: cursorPaginate's first call uses cursor 0 at offset 0, every later  *)
(* call passes the LastSort of the page before it, and the function        *)
(* returns after exactly 10 calls with the pages' Users in fetch order.    *)
C7_CursorThreading ==
    /\ Len(calls) >= 1 =>
          /\ calls[1].cursor = 0
          /\ calls[1].from = 0
          /\ calls[1].req.from = <<0>>
          /\ calls[1].req.search_after = <<>>
    /\ \A k \in 2..Len(calls) :
          /\ calls[k].cursor = outs[k - 1].res.LastSort
          /\ calls[k].size = PageSize
    /\ pc = "done" =>
          /\ Len(calls) = CursorIters
          /\ result = ConcatUsers(outs, 1)

C7_Witness ==
    /\ pc = "done"
    /\ Len(calls) = 10
    /\ calls[2].cursor = 10
    /\ calls[2].req.search_after = <<10>>
    /\ Len(outs[2].res.Users) >= 1
    /\ \E k \in 3..10 : outs[k].kind = "ok" /\ outs[k].res.Users = <<>>

(* C8: no page of a cursor retrieval reports a cursor lower than the       *)
(* cursor it was requested with.                                           *)
C8_CursorNonDecreasing ==
    \A k \in 1..Len(outs) :
       outs[k].kind = "ok" => outs[k].res.LastSort >= calls[k].cursor

(* C9: in cursorPaginate a failed Load call, the first included, is the    *)
(* last call: no request follows it and no result set is returned.         *)
C9_ErrorAborts ==
    \A k \in 1..Len(outs) :
       outs[k].kind = "err" => (k = Len(calls) /\ pc # "done")

(* C10: the result accumulated by cursorPaginate has strictly ascending    *)
(* IDs (so no document twice), whatever is stored between the fetches.     *)
C10_StrictlyAscending ==
    \A k \in 1..(Len(result) - 1) : result[k].ID < result[k + 1].ID

====
